---- MODULE Spec2Model ----
(***************************************************************************)
(* Course-content backend of the biology teaching platform: the folder     *)
(* hierarchy (materialized paths, recursive delete), the material catalog  *)
(* with its access checks, and the video-session attendance list.          *)
(* Both backends are modelled: the Mongoose routes and the SQLite server.  *)
(***************************************************************************)
EXTENDS Integers, Sequences, FiniteSets, TLC

VARIABLES
    folders,      \* Folder collection: id -> document
    materials,    \* Material collection (Mongoose): id -> document
    blobs,        \* stored files: the file paths that exist on disk
    folderSeq,    \* number of Folder documents ever inserted (ids are never reused)
    materialSeq,  \* number of Material documents ever inserted
    delStack,     \* call stack of the running deleteFolder, innermost frame last
    delInfo,      \* history: what the DELETE /api/folders/:id that ran last started from
    sqlMaterials, \* materials table of the SQLite backend: sequence of rows
    sessions,     \* ZoomSession collection: id -> document
    sessionSeq,   \* number of ZoomSession documents ever inserted
    clock,        \* the wall clock read by new Date()
    joinLog,      \* history: successful joins per (session, user)
    shareLog,     \* history: permission of the latest share request naming a user
    reqs          \* requests in flight: process -> handler position and loaded document

vars == <<folders, materials, blobs, folderSeq, materialSeq, delStack, delInfo,
          sqlMaterials, sessions, sessionSeq, clock, joinLog, shareLog, reqs>>

-----------------------------------------------------------------------------
(* Bounds of the model *)

MaxFolders == 3     \* Folder documents ever inserted
MaxMaterials == 2   \* Material documents ever inserted by uploads into folders
MaxCatalog == 1     \* Material documents ever inserted by POST /api/materials
MaxCount == 1       \* cap of viewCount and downloadCount
MaxSessions == 1    \* ZoomSession documents ever inserted
MaxClock == 4       \* clock readings taken by join requests
MaxAttached == 3    \* length of a session's materials list

-----------------------------------------------------------------------------
(* Principals *)

Teachers == {"t1", "t2"}
Admins == {"ad"}
Students == {"s1", "s2"}
Users == Teachers \cup Admins \cup Students

Role(u) == IF u \in Students THEN "student" ELSE IF u \in Admins THEN "admin" ELSE "teacher"

\* studentInfo of the two students
StudentGrade(u) == IF u = "s1" THEN "9" ELSE "10"
StudentProgram(u) == IF u = "s1" THEN "EST" ELSE "ACT"

\* middleware isTeacher: the gate of the "Private (Teacher only)" routes
isTeacher(u) == Role(u) \in {"teacher", "admin"}

Null == 0
NoValue == "undefined"   \* an absent string field
NoFile == 0             \* an absent file reference
Absent == <<>>          \* a body field that is not sent; <<v>> is the field sent as v
Undefined == "undefined"   \* the value of a property the document does not have
NoDelInfo == [root |-> Null, subtree |-> {}, mats |-> {}, unlinkFailed |-> FALSE, done |-> FALSE]

FolderNames == {"a", "b"}

-----------------------------------------------------------------------------
(* Folder hierarchy *)

FolderIds == DOMAIN folders
MaterialIds == DOMAIN materials

ExistingFolder_AtRoot(name, parent, owner, self) ==
    \E g \in FolderIds :
        /\ g # self
        /\ folders[g].name = name
        /\ folders[g].parentFolder = Null
        /\ folders[g].owner = owner

\* Folder.findOne({ name, parentFolder, owner [, _id: { $ne: self }] })
ExistingFolder(name, parent, owner, self) ==
    \E g \in FolderIds :
        /\ g # self
        /\ folders[g].name = name
        /\ folders[g].parentFolder = parent
        /\ folders[g].owner = owner

\* pre('save') cannot read parent.path when findById(parentFolder) yields null
PreSaveThrows(parent) == parent # Null /\ parent \notin FolderIds

PreSavePath_ParentName(name, parent) ==
    IF parent # Null THEN folders[parent].name \o "/" \o name ELSE name

\* folderSchema.pre('save'): the path written with the document
PreSavePath(name, parent) ==
    IF parent # Null THEN folders[parent].path \o "/" \o name ELSE name

Subfolders_Self(folderId) ==
    {g \in FolderIds : folders[g].parentFolder = folderId \/ g = folderId}

Subfolders_First(folderId) ==
    LET S == {g \in FolderIds : folders[g].parentFolder = folderId}
    IN IF S = {} THEN {} ELSE {CHOOSE g \in S : \A h \in S : g <= h}

\* Folder.find({ parentFolder: folderId })
Subfolders(folderId) == {g \in FolderIds : folders[g].parentFolder = folderId}

MaterialsIn_Files(folderId) ==
    {m \in MaterialIds : materials[m].folder = folderId /\ materials[m].filePath # NoFile}

\* Material.find({ folder: folderId })
MaterialsIn(folderId) == {m \in MaterialIds : materials[m].folder = folderId}

RECURSIVE Descendants(_, _)
\* the folders reached from folderId along parentFolder in at most n steps
Descendants(folderId, n) ==
    IF n = 0 THEN {folderId}
    ELSE {folderId} \cup
         UNION {Descendants(g, n - 1) : g \in {h \in FolderIds : folders[h].parentFolder = folderId}}

\* the folder and all its descendants
Subtree(folderId) == Descendants(folderId, Cardinality(FolderIds))

RECURSIVE SetToSeq(_)
\* a query result in insertion (id) order
SetToSeq(S) ==
    IF S = {} THEN <<>>
    ELSE LET x == CHOOSE y \in S : \A z \in S : y <= z
         IN <<x>> \o SetToSeq(S \ {x})

Remove(f, ids) == [x \in (DOMAIN f) \ ids |-> f[x]]
Insert(f, id, doc) == [x \in (DOMAIN f) \cup {id} |-> IF x = id THEN doc ELSE f[x]]

\* no deleteFolder is running: the requests of this specification are handled one at a time
Idle == delStack = <<>>

\* POST /api/folders: the response
CreateFolderStatus(u, name, parentFolder) ==
    IF ~isTeacher(u) THEN "denied"
    ELSE IF ExistingFolder(name, parentFolder, u, Null) THEN "duplicate"
    ELSE IF PreSaveThrows(parentFolder) THEN "error"
    ELSE "ok"

\* POST /api/folders
CreateFolderHandler(u, name, parentFolder, grade, program, isPublic) ==
    /\ folderSeq < MaxFolders
    /\ IF CreateFolderStatus(u, name, parentFolder) = "ok" THEN
            /\ folders' = Insert(folders, folderSeq + 1,
                   [name |-> name, parentFolder |-> parentFolder, owner |-> u,
                    grade |-> grade, program |-> program, isPublic |-> isPublic,
                    sharedWith |-> <<>>, path |-> PreSavePath(name, parentFolder)])
            /\ folderSeq' = folderSeq + 1
       ELSE UNCHANGED <<folders, folderSeq>>
    /\ UNCHANGED <<materials, blobs, materialSeq, delStack, sqlMaterials,
                   sessions, sessionSeq, clock, joinLog, shareLog, reqs>>

\* POST /api/folders while no deleteFolder is running
CreateFolder(u, name, parentFolder, grade, program, isPublic) ==
    /\ Idle
    /\ delInfo' = NoDelInfo
    /\ CreateFolderHandler(u, name, parentFolder, grade, program, isPublic)

\* PUT /api/folders/:id: the response
UpdateFolderStatus(u, id, name) ==
    IF ~isTeacher(u) THEN "denied"
    ELSE IF ~(id \in FolderIds /\ folders[id].owner = u) THEN "not_found"
    ELSE IF /\ name # Absent /\ name[1] # folders[id].name
            /\ ExistingFolder(name[1], folders[id].parentFolder, u, id) THEN "duplicate"
    ELSE IF PreSaveThrows(folders[id].parentFolder) THEN "error"
    ELSE "ok"

\* PUT /api/folders/:id  (name and isPublic of the body)
UpdateFolder(u, id, name, isPublic) ==
    /\ Idle
    /\ delInfo' = NoDelInfo
    /\ IF UpdateFolderStatus(u, id, name) = "ok" THEN
            LET folder == folders[id]
                newName == IF name # Absent /\ name[1] # folder.name THEN name[1] ELSE folder.name
                newPublic == IF isPublic # Absent THEN isPublic[1] ELSE folder.isPublic
            IN folders' = [folders EXCEPT ![id] =
                   [folder EXCEPT !.name = newName, !.isPublic = newPublic,
                                  !.path = PreSavePath(newName, folder.parentFolder)]]
       ELSE UNCHANGED folders
    /\ UNCHANGED <<materials, blobs, folderSeq, materialSeq, delStack, sqlMaterials,
                   sessions, sessionSeq, clock, joinLog, shareLog, reqs>>

-----------------------------------------------------------------------------
(* Materials inside folders *)

MaterialTypes == {"pdf", "link"}

\* materialSchema: the required paths checked by save()
MaterialValidates(doc) ==
    /\ doc.type # "link" => (doc.fileName # NoFile /\ doc.filePath # NoFile)
    /\ doc.type = "link" => doc.url # NoValue
    /\ doc.folder # Null

\* the document built from materialData; file = TRUE when multer stored req.file (under path id)
MaterialDoc(id, type, url, file, folder, owner, grade, program, isPublic) ==
    [type |-> type,
     fileName |-> IF type # "link" /\ file THEN id ELSE NoFile,
     filePath |-> IF type # "link" /\ file THEN id ELSE NoFile,
     fileSize |-> IF type # "link" /\ file THEN 1 ELSE NoFile,
     url |-> IF type = "link" THEN url ELSE NoValue,
     folder |-> folder, owner |-> owner, grade |-> grade, program |-> program,
     title |-> "t", description |-> NoValue, tags |-> <<>>, dueDate |-> NoValue,
     priority |-> "medium",
     isPublic |-> isPublic, viewCount |-> 0, downloadCount |-> 0]

\* await material.save() of a new document, with the file multer wrote for it
StoreMaterial(id, doc) ==
    /\ materials' = Insert(materials, id, doc)
    /\ materialSeq' = id
    /\ blobs' = IF doc.filePath # NoFile THEN blobs \cup {doc.filePath} ELSE blobs

\* POST /api/folders/:id/materials: the response
UploadToFolderStatus(u, folderId, type, url, file) ==
    IF ~isTeacher(u) THEN "denied"
    ELSE IF ~(folderId \in FolderIds /\ folders[folderId].owner = u) THEN "not_found"
    ELSE IF type # "link" /\ ~file THEN "invalid"
    ELSE IF ~MaterialValidates(MaterialDoc(1, type, url, file, folderId, u, "9", "Both", FALSE))
         THEN "error"
    ELSE "ok"

\* POST /api/folders/:id/materials
UploadToFolderHandler(u, folderId, type, url, file) ==
    /\ materialSeq < MaxMaterials
    /\ IF UploadToFolderStatus(u, folderId, type, url, file) = "ok" THEN
            StoreMaterial(materialSeq + 1,
                MaterialDoc(materialSeq + 1, type, url, file, folderId, u,
                            folders[folderId].grade, folders[folderId].program, FALSE))
       ELSE UNCHANGED <<materials, materialSeq, blobs>>
    /\ UNCHANGED <<folders, folderSeq, delStack, sqlMaterials,
                   sessions, sessionSeq, clock, joinLog, shareLog, reqs>>

\* POST /api/folders/:id/materials while no deleteFolder is running
UploadToFolder(u, folderId, type, url, file) ==
    /\ Idle
    /\ delInfo' = NoDelInfo
    /\ UploadToFolderHandler(u, folderId, type, url, file)

-----------------------------------------------------------------------------
(* DELETE /api/folders/:id and the recursive helper deleteFolder *)

Frame(folderId) == [folder |-> folderId, pc |-> "find", subfolders |-> <<>>]
Top == delStack[Len(delStack)]
SetTop(frame) == [delStack EXCEPT ![Len(delStack)] = frame]
Pop == SubSeq(delStack, 1, Len(delStack) - 1)

\* DELETE /api/folders/:id: the response
DeleteFolderStatus(u, id) ==
    IF ~isTeacher(u) THEN "denied"
    ELSE IF ~(id \in FolderIds /\ folders[id].owner = u) THEN "not_found"
    ELSE "ok"

\* the route handler up to its call of deleteFolder(folder._id)
DeleteFolderRoute(u, id) ==
    /\ Idle
    /\ DeleteFolderStatus(u, id) = "ok"
    /\ delStack' = <<Frame(id)>>
    /\ delInfo' = [root |-> id, subtree |-> Subtree(id),
                   mats |-> UNION {MaterialsIn(g) : g \in Subtree(id)},
                   unlinkFailed |-> FALSE, done |-> FALSE]
    /\ UNCHANGED <<folders, materials, blobs, folderSeq, materialSeq, sqlMaterials,
                   sessions, sessionSeq, clock, joinLog, shareLog, reqs>>

\* deleteFolder: const subfolders = await Folder.find({ parentFolder: folderId })
DelFindSubfolders ==
    /\ ~Idle /\ Top.pc = "find"
    /\ delStack' = SetTop([Top EXCEPT !.pc = "recurse",
                                      !.subfolders = SetToSeq(Subfolders(Top.folder))])
    /\ UNCHANGED <<folders, materials, blobs, folderSeq, materialSeq, delInfo, sqlMaterials,
                   sessions, sessionSeq, clock, joinLog, shareLog, reqs>>

\* deleteFolder: for (const subfolder of subfolders) await deleteFolder(subfolder._id)
DelRecurse ==
    /\ ~Idle /\ Top.pc = "recurse"
    /\ IF Top.subfolders # <<>> THEN
            delStack' = Append(SetTop([Top EXCEPT !.subfolders = Tail(Top.subfolders)]),
                               Frame(Head(Top.subfolders)))
       ELSE delStack' = SetTop([Top EXCEPT !.pc = "unlink"])
    /\ UNCHANGED <<folders, materials, blobs, folderSeq, materialSeq, delInfo, sqlMaterials,
                   sessions, sessionSeq, clock, joinLog, shareLog, reqs>>

\* deleteFolder: fs.unlink of every filePath of Material.find({ folder: folderId });
\* each unlink succeeds or throws, and a throw is caught and logged
DelUnlinkFiles ==
    /\ ~Idle /\ Top.pc = "unlink"
    /\ LET paths == {materials[m].filePath : m \in {x \in MaterialsIn(Top.folder) :
                                                        materials[x].filePath # NoFile}}
       IN \E failed \in SUBSET paths :
            /\ blobs' = blobs \ (paths \ failed)
            /\ delInfo' = [delInfo EXCEPT !.unlinkFailed = @ \/ failed # {}]
    /\ delStack' = SetTop([Top EXCEPT !.pc = "deleteMany"])
    /\ UNCHANGED <<folders, materials, folderSeq, materialSeq, sqlMaterials,
                   sessions, sessionSeq, clock, joinLog, shareLog, reqs>>

\* deleteFolder: await Material.deleteMany({ folder: folderId })
DelDeleteMany ==
    /\ ~Idle /\ Top.pc = "deleteMany"
    /\ materials' = Remove(materials, MaterialsIn(Top.folder))
    /\ delStack' = SetTop([Top EXCEPT !.pc = "remove"])
    /\ UNCHANGED <<folders, blobs, folderSeq, materialSeq, delInfo, sqlMaterials,
                   sessions, sessionSeq, clock, joinLog, shareLog, reqs>>

\* deleteFolder: await Folder.findByIdAndDelete(folderId); after the outermost
\* call returns the route answers 'Folder deleted successfully'
DelRemoveFolder ==
    /\ ~Idle /\ Top.pc = "remove"
    /\ folders' = Remove(folders, {Top.folder})
    /\ delStack' = Pop
    /\ delInfo' = [delInfo EXCEPT !.done = (Len(delStack) = 1)]
    /\ UNCHANGED <<materials, blobs, folderSeq, materialSeq, sqlMaterials,
                   sessions, sessionSeq, clock, joinLog, shareLog, reqs>>

-----------------------------------------------------------------------------
(* Material catalog (Mongoose backend) *)

\* material.sharedWith: materialSchema declares no sharedWith path, so the
\* property is undefined on every Material document
SharedWith_Declared(doc) == IF "sharedWith" \in DOMAIN doc THEN doc.sharedWith ELSE << >>

SharedWith(doc) == IF "sharedWith" \in DOMAIN doc THEN doc.sharedWith ELSE Undefined

\* sharedWith.some(share => share.user.toString() === req.user._id.toString())
HasShare(list, u) == \E i \in 1..Len(list) : list[i].user = u

\* the eligibility filter: grade, program or program 'Both'
Eligible(doc, u) ==
    \/ doc.grade = StudentGrade(u)
    \/ doc.program = StudentProgram(u)
    \/ doc.program = "Both"

ReadAccess_TeacherOnly(doc, u) ==
    IF Role(u) = "student" THEN
        IF doc.isPublic THEN "ok"
        ELSE IF SharedWith(doc) = Undefined THEN "error"
        ELSE IF HasShare(SharedWith(doc), u) THEN "ok" ELSE "denied"
    ELSE IF Role(u) # "teacher" \/ doc.owner # u THEN "denied"
    ELSE "ok"

\* "Check access permissions" of GET /api/materials/:id and of the download route;
\* reading .some of the undefined sharedWith throws, which the route answers with 500
ReadAccess(doc, u) ==
    IF Role(u) = "student" THEN
        IF doc.isPublic THEN "ok"
        ELSE IF SharedWith(doc) = Undefined THEN "error"
        ELSE IF HasShare(SharedWith(doc), u) THEN "ok" ELSE "denied"
    ELSE IF doc.owner # u THEN "denied"
    ELSE "ok"

\* GET /api/materials/:id: the response
GetMaterialStatus(u, m) ==
    IF m \notin MaterialIds THEN "not_found" ELSE ReadAccess(materials[m], u)

\* GET /api/materials/:id
GetMaterial(u, m) ==
    /\ GetMaterialStatus(u, m) = "ok"
    /\ materials[m].viewCount < MaxCount
    /\ materials' = [materials EXCEPT ![m].viewCount = @ + 1]
    /\ UNCHANGED <<folders, blobs, folderSeq, materialSeq, delStack, delInfo, sqlMaterials,
                   sessions, sessionSeq, clock, joinLog, shareLog, reqs>>

\* the download route after findById, for the loaded document and the files on disk
DownloadStatusOf(doc, u, files) ==
    IF ReadAccess(doc, u) # "ok" THEN ReadAccess(doc, u)
    ELSE IF doc.filePath = NoFile THEN "no_file"
    ELSE IF doc.filePath \notin files THEN "file_missing"
    ELSE "ok"

\* GET /api/materials/:id/download: the response
DownloadStatus(u, m) ==
    IF m \notin MaterialIds THEN "not_found" ELSE DownloadStatusOf(materials[m], u, blobs)

\* GET /api/materials/:id/download, handled without another request in between
DownloadMaterial(u, m) ==
    /\ DownloadStatus(u, m) = "ok"
    /\ materials[m].downloadCount < MaxCount
    /\ materials' = [materials EXCEPT ![m].downloadCount = @ + 1]
    /\ UNCHANGED <<folders, blobs, folderSeq, materialSeq, delStack, delInfo, sqlMaterials,
                   sessions, sessionSeq, clock, joinLog, shareLog, reqs>>

OwnerLookup_ById(u, m) ==
    IF ~isTeacher(u) THEN "denied"
    ELSE IF m \notin MaterialIds THEN "not_found"
    ELSE "ok"

\* Material.findOne({ _id: req.params.id, owner: req.user._id }) behind isTeacher
OwnerLookup(u, m) ==
    IF ~isTeacher(u) THEN "denied"
    ELSE IF ~(m \in MaterialIds /\ materials[m].owner = u) THEN "not_found"
    ELSE "ok"

\* POST /api/materials: the response
CreateMaterialStatus(u, type, url, file, folder) ==
    IF ~isTeacher(u) THEN "denied"
    ELSE IF folder # Null /\ ~(folder \in FolderIds /\ folders[folder].owner = u) THEN "invalid_folder"
    ELSE IF type = "link" /\ url = NoValue THEN "invalid"
    ELSE IF type # "link" /\ ~file THEN "invalid"
    ELSE IF ~MaterialValidates(MaterialDoc(1, type, url, file, folder, u, "9", "Both", FALSE))
         THEN "error"
    ELSE "ok"

\* POST /api/materials  (isPublic is the form field, a string)
CreateMaterial(u, type, url, file, folder, grade, program, isPublic) ==
    /\ materialSeq < MaxCatalog
    /\ IF CreateMaterialStatus(u, type, url, file, folder) = "ok" THEN
            StoreMaterial(materialSeq + 1,
                MaterialDoc(materialSeq + 1, type, url, file, folder, u,
                            grade, program, isPublic = "true"))
       ELSE UNCHANGED <<materials, materialSeq, blobs>>
    /\ UNCHANGED <<folders, folderSeq, delStack, delInfo, sqlMaterials,
                   sessions, sessionSeq, clock, joinLog, shareLog, reqs>>

\* the body of PUT /api/materials/:id: every field is Absent or <<value>>
PatchFields == {"title", "description", "url", "tags", "dueDate", "priority", "isPublic"}
EmptyPatch == [f \in PatchFields |-> Absent]

\* String.prototype.trim on the strings the requests send
Trim(str) == CASE str = " " -> "" [] str = " x" -> "x" [] OTHER -> str

\* tags.split(',').map(tag => tag.trim()), the string given as its pieces between
\* commas (the empty string as no piece)
SplitTags(pieces) == [i \in 1..Len(pieces) |-> Trim(pieces[i])]

\* a string that JavaScript treats as true in "if (value)"
Truthy(field) == field # Absent /\ field[1] # ""

\* the same for the tags string
TruthyTags(field) == field # Absent /\ field[1] # <<>>

ValidDates == {"2027-01-01"}
Priorities == {"low", "medium", "high"}

PatchedDoc_Overwrite(doc, patch) ==
    [doc EXCEPT
        !.title = IF Truthy(patch.title) THEN Trim(patch.title[1]) ELSE @,
        !.description = IF patch.description # Absent THEN Trim(patch.description[1]) ELSE NoValue,
        !.url = IF Truthy(patch.url) /\ doc.type = "link" THEN patch.url[1] ELSE @,
        !.tags = IF TruthyTags(patch.tags) THEN SplitTags(patch.tags[1]) ELSE @,
        !.dueDate = IF Truthy(patch.dueDate) THEN patch.dueDate[1] ELSE @,
        !.priority = IF Truthy(patch.priority) THEN patch.priority[1] ELSE @,
        !.isPublic = IF patch.isPublic # Absent THEN patch.isPublic[1] ELSE @]

\* the assignments of PUT /api/materials/:id on the loaded document; title is
\* trimmed by the route's validator, description by the schema
PatchedDoc(doc, patch) ==
    [doc EXCEPT
        !.title = IF Truthy(patch.title) THEN Trim(patch.title[1]) ELSE @,
        !.description = IF patch.description # Absent THEN Trim(patch.description[1]) ELSE @,
        !.url = IF Truthy(patch.url) /\ doc.type = "link" THEN patch.url[1] ELSE @,
        !.tags = IF TruthyTags(patch.tags) THEN SplitTags(patch.tags[1]) ELSE @,
        !.dueDate = IF Truthy(patch.dueDate) THEN patch.dueDate[1] ELSE @,
        !.priority = IF Truthy(patch.priority) THEN patch.priority[1] ELSE @,
        !.isPublic = IF patch.isPublic # Absent THEN patch.isPublic[1] ELSE @]

\* PUT /api/materials/:id: the response. The validator refuses a title that is
\* empty after trim; save() refuses a date that does not parse and a priority
\* outside the enum
UpdateMaterialStatus(u, m, patch) ==
    IF ~isTeacher(u) THEN "denied"
    ELSE IF patch.title # Absent /\ Trim(patch.title[1]) = "" THEN "invalid"
    ELSE IF OwnerLookup(u, m) # "ok" THEN OwnerLookup(u, m)
    ELSE IF Truthy(patch.dueDate) /\ patch.dueDate[1] \notin ValidDates THEN "error"
    ELSE IF Truthy(patch.priority) /\ patch.priority[1] \notin Priorities THEN "error"
    ELSE "ok"

\* PUT /api/materials/:id
UpdateMaterial(u, m, patch) ==
    /\ IF UpdateMaterialStatus(u, m, patch) = "ok"
       THEN materials' = [materials EXCEPT ![m] = PatchedDoc(@, patch)]
       ELSE UNCHANGED materials
    /\ UNCHANGED <<folders, blobs, folderSeq, materialSeq, delStack, delInfo, sqlMaterials,
                   sessions, sessionSeq, clock, joinLog, shareLog, reqs>>

\* DELETE /api/materials/:id: the response
DeleteMaterialStatus(u, m) == OwnerLookup(u, m)

\* DELETE /api/materials/:id; unlinked = FALSE when fs.unlink throws (caught and logged)
DeleteMaterial(u, m, unlinked) ==
    /\ DeleteMaterialStatus(u, m) = "ok"
    /\ blobs' = IF materials[m].filePath # NoFile /\ unlinked
                THEN blobs \ {materials[m].filePath} ELSE blobs
    /\ materials' = Remove(materials, {m})
    /\ UNCHANGED <<folders, folderSeq, materialSeq, delStack, delInfo, sqlMaterials,
                   sessions, sessionSeq, clock, joinLog, shareLog, reqs>>

RECURSIVE ShareLoop(_, _, _)
\* the for loop over studentIds: push a grant when none is found for the id, else
\* set the permission of the grant found
ShareLoop(list, studentIds, permission) ==
    IF studentIds = <<>> THEN list
    ELSE LET studentId == Head(studentIds)
             next == IF ~HasShare(list, studentId)
                     THEN Append(list, [user |-> studentId, permission |-> permission])
                     ELSE [i \in 1..Len(list) |->
                              IF i = (CHOOSE j \in 1..Len(list) : list[j].user = studentId
                                         /\ \A k \in 1..(j - 1) : list[k].user # studentId)
                              THEN [list[i] EXCEPT !.permission = permission]
                              ELSE list[i]]
         IN ShareLoop(next, Tail(studentIds), permission)

\* POST /api/materials/:id/share: the response
ShareMaterialStatus(u, m, studentIds, permission) ==
    IF ~isTeacher(u) THEN "denied"
    ELSE IF studentIds = <<>> \/ permission \notin {"read", "write"} THEN "invalid"
    ELSE IF OwnerLookup(u, m) # "ok" THEN OwnerLookup(u, m)
    ELSE IF SharedWith(materials[m]) = Undefined THEN "error"
    ELSE "ok"

\* the grants of a material: the share list it stores, none when it stores no list
Grants(m) == IF SharedWith(materials[m]) = Undefined THEN <<>> ELSE SharedWith(materials[m])

\* POST /api/materials/:id/share
ShareMaterial(u, m, studentIds, permission) ==
    /\ IF ShareMaterialStatus(u, m, studentIds, permission) = "ok"
       THEN materials' = [materials EXCEPT ![m].sharedWith =
                              ShareLoop(@, studentIds, permission)]
       ELSE UNCHANGED materials
    /\ shareLog' = IF ShareMaterialStatus(u, m, studentIds, permission) \in {"ok", "error"}
                   THEN [x \in DOMAIN shareLog \cup {<<m, studentIds[i]>> : i \in 1..Len(studentIds)} |->
                            IF \E i \in 1..Len(studentIds) : x = <<m, studentIds[i]>>
                            THEN permission ELSE shareLog[x]]
                   ELSE shareLog
    /\ UNCHANGED <<folders, blobs, folderSeq, materialSeq, delStack, delInfo, sqlMaterials,
                   sessions, sessionSeq, clock, joinLog, reqs>>

ListQuery_EligibleOnly(doc, u) ==
    IF Role(u) = "student" THEN Eligible(doc, u) ELSE doc.owner = u

\* the query of GET /api/materials without the optional filters
ListQuery(doc, u) ==
    IF Role(u) = "student"
    THEN /\ (doc.isPublic \/ (SharedWith(doc) # Undefined /\ HasShare(SharedWith(doc), u)))
         /\ Eligible(doc, u)
    ELSE doc.owner = u

\* GET /api/materials: the materials of the response (all pages)
ListMaterials(u) == {m \in MaterialIds : ListQuery(materials[m], u)}

\* GET /api/folders/:id/materials: the response
ListFolderMaterialsStatus(u, f) ==
    IF f \notin FolderIds THEN "not_found"
    ELSE IF folders[f].owner # u /\ ~folders[f].isPublic /\ ~HasShare(folders[f].sharedWith, u)
         THEN "denied"
    ELSE "ok"

\* GET /api/materials and GET /api/folders/:id/materials: queries, nothing is written
ReadOnlyRequest(u, f) ==
    /\ ListMaterials(u) \subseteq MaterialIds
    /\ ListFolderMaterialsStatus(u, f) \in {"ok", "denied", "not_found"}
    /\ UNCHANGED vars

-----------------------------------------------------------------------------
(* Specifications of the folder hierarchy: requests handled one after the other. *)
(* SpecFolder: create, update (rename) and delete of folders.                    *)
(* SpecDelete: create, upload into folders, and delete with its file unlinks.    *)

Init ==
    /\ folders = << >>
    /\ materials = << >>
    /\ blobs = {}
    /\ folderSeq = 0
    /\ materialSeq = 0
    /\ delStack = <<>>
    /\ delInfo = NoDelInfo
    /\ sqlMaterials = <<>>
    /\ sessions = << >>
    /\ sessionSeq = 0
    /\ clock = 0
    /\ joinLog = << >>
    /\ shareLog = << >>
    /\ reqs = << >>

FolderUsers == {"t1"}

FolderCreate ==
    \E u \in FolderUsers, name \in FolderNames, parent \in 0..MaxFolders :
        CreateFolder(u, name, parent, "9", "Both", FALSE)

FolderUpdate ==
    \E u \in FolderUsers, id \in 1..MaxFolders, name \in {<<n>> : n \in FolderNames} \cup {Absent} :
        UpdateFolder(u, id, name, Absent)

FolderUpload ==
    \E u \in FolderUsers, id \in 1..MaxFolders, type \in MaterialTypes :
        UploadToFolder(u, id, type, "u", TRUE)

FolderDelete == \E u \in FolderUsers, id \in 1..MaxFolders : DeleteFolderRoute(u, id)

DeleteFolderSteps ==
    \/ DelFindSubfolders
    \/ DelRecurse
    \/ DelUnlinkFiles
    \/ DelDeleteMany
    \/ DelRemoveFolder

NextFolder ==
    \/ FolderCreate
    \/ FolderUpdate
    \/ FolderDelete
    \/ DeleteFolderSteps

SpecFolder == Init /\ [][NextFolder]_vars

NextDelete ==
    \/ FolderCreate
    \/ FolderUpload
    \/ FolderDelete
    \/ DeleteFolderSteps

SpecDelete == Init /\ [][NextDelete]_vars

-----------------------------------------------------------------------------
(* Material upload of the SQLite backend *)

\* requireRole(['teacher', 'admin'])
requireRole(roles, u) == Role(u) \in roles

\* the folders table: the seeded folders, all owned by the admin (no route inserts folders)
SqlFolderOwner == [f \in {1} |-> "ad"]

\* POST /api/materials (sqlite): the response. fk = TRUE when the connection
\* enforces foreign keys, so that the INSERT of an unknown folder_id fails
SqlCreateMaterialStatus(u, type, url, file, folder_id, fk) ==
    IF ~requireRole({"teacher", "admin"}, u) THEN "denied"
    ELSE IF type # "link" /\ ~file THEN "invalid"
    ELSE IF fk /\ folder_id # Null /\ folder_id \notin DOMAIN SqlFolderOwner THEN "error"
    ELSE "ok"

\* POST /api/materials (sqlite): INSERT INTO materials; an undefined parameter is stored as NULL
SqlCreateMaterial(u, type, url, file, folder_id, fk, is_public) ==
    /\ Len(sqlMaterials) < MaxCatalog
    /\ IF SqlCreateMaterialStatus(u, type, url, file, folder_id, fk) = "ok" THEN
            sqlMaterials' = Append(sqlMaterials,
                [type |-> type,
                 file_name |-> IF type # "link" THEN Len(sqlMaterials) + 1 ELSE NoFile,
                 file_path |-> IF type # "link" THEN Len(sqlMaterials) + 1 ELSE NoFile,
                 file_size |-> IF type # "link" THEN 1 ELSE NoFile,
                 url |-> IF type = "link" THEN url ELSE NoValue,
                 folder_id |-> folder_id, owner_id |-> u,
                 is_public |-> IF is_public = "true" THEN 1 ELSE 0])
       ELSE UNCHANGED sqlMaterials
    /\ UNCHANGED <<folders, materials, blobs, folderSeq, materialSeq, delStack, delInfo,
                   sessions, sessionSeq, clock, joinLog, shareLog, reqs>>

-----------------------------------------------------------------------------
(* GET /api/materials/:id/download as the steps between its awaits *)

Procs == {1, 2}
IdleReq == [pc |-> "idle", user |-> "none", id |-> Null, doc |-> << >>, status |-> "none"]

\* await Material.findById, the access check, the filePath test and fs.access
DlFind(p, u, m) ==
    /\ reqs[p].pc = "idle"
    /\ reqs' = [reqs EXCEPT ![p] =
           IF DownloadStatus(u, m) = "ok"
           THEN [pc |-> "save", user |-> u, id |-> m, doc |-> materials[m], status |-> "none"]
           ELSE [pc |-> "done", user |-> u, id |-> m, doc |-> << >>,
                 status |-> DownloadStatus(u, m)]]
    /\ UNCHANGED <<folders, materials, blobs, folderSeq, materialSeq, delStack, delInfo,
                   sqlMaterials, sessions, sessionSeq, clock, joinLog, shareLog>>

DlSaveCount_Inc(p) == materials[reqs[p].id].downloadCount + 1

\* material.downloadCount += 1 on the loaded document: the value save() writes
DlSaveCount(p) == reqs[p].doc.downloadCount + 1

\* await material.save(): the modified path is written with $set; the save of a
\* document that was deleted meanwhile throws
DlSave(p) ==
    /\ reqs[p].pc = "save"
    /\ IF reqs[p].id \in MaterialIds
       THEN /\ materials' = [materials EXCEPT ![reqs[p].id].downloadCount = DlSaveCount(p)]
            /\ reqs' = [reqs EXCEPT ![p].pc = "done", ![p].status = "ok"]
       ELSE /\ reqs' = [reqs EXCEPT ![p].pc = "done", ![p].status = "error"]
            /\ UNCHANGED materials
    /\ UNCHANGED <<folders, blobs, folderSeq, materialSeq, delStack, delInfo,
                   sqlMaterials, sessions, sessionSeq, clock, joinLog, shareLog>>

-----------------------------------------------------------------------------
(* Specifications of the material catalog *)

Creators == {"t1", "ad"}
Permissions == {"read", "write"}
StudentIdLists == {<<"s1">>, <<"s2">>, <<"s1", "s2">>, <<"s1", "s1">>}

CatalogCreateFolder ==
    \E u \in Creators, isPublic \in BOOLEAN : CreateFolder(u, "a", Null, "9", "Both", isPublic)

\* SpecAccess: the requests on one material and its folder, one after the other
AccessCreateMaterial ==
    \E u \in Creators, folder \in 0..MaxFolders, isPublic \in {"true", "false"} :
        CreateMaterial(u, "pdf", NoValue, TRUE, folder, "9", "Both", isPublic)

AccessGet == \E u \in Users, m \in 1..MaxCatalog : GetMaterial(u, m)

AccessDownload == \E u \in Users, m \in 1..MaxCatalog : DownloadMaterial(u, m)

AccessUpdate ==
    \E u \in Users, m \in 1..MaxCatalog, isPublic \in {Absent, <<TRUE>>, <<FALSE>>} :
        UpdateMaterial(u, m, [EmptyPatch EXCEPT !.isPublic = isPublic])

AccessDelete == \E u \in Users, m \in 1..MaxCatalog, unlinked \in BOOLEAN : DeleteMaterial(u, m, unlinked)

AccessShare ==
    \E u \in Users, m \in 1..MaxCatalog : ShareMaterial(u, m, <<"s1">>, "read")

AccessRead == \E u \in Users, f \in 1..MaxFolders : ReadOnlyRequest(u, f)

NextAccess ==
    \/ CatalogCreateFolder
    \/ AccessCreateMaterial
    \/ AccessGet
    \/ AccessDownload
    \/ AccessUpdate
    \/ AccessDelete
    \/ AccessShare
    \/ AccessRead

SpecAccess == Init /\ [][NextAccess]_vars

\* SpecList: materials of every grade and program, listed by the students
ListCreateMaterial ==
    \E u \in Creators, folder \in 1..MaxFolders, grade \in {"9", "10"},
       program \in {"EST", "ACT", "Both"}, isPublic \in {"true", "false"} :
        CreateMaterial(u, "pdf", NoValue, TRUE, folder, grade, program, isPublic)

NextList ==
    \/ CatalogCreateFolder
    \/ ListCreateMaterial
    \/ AccessUpdate
    \/ AccessShare
    \/ AccessDelete
    \/ AccessRead

SpecList == Init /\ [][NextList]_vars

\* SpecShare: the owner's share requests on a material, one after the other
ShareCreateMaterial ==
    \E u \in Creators, folder \in 1..MaxFolders, type \in MaterialTypes :
        CreateMaterial(u, type, "u", TRUE, folder, "9", "Both", "false")

ShareRequest ==
    \E u \in Creators, m \in 1..MaxCatalog, studentIds \in StudentIdLists,
       permission \in Permissions :
        ShareMaterial(u, m, studentIds, permission)

NextShare ==
    \/ CatalogCreateFolder
    \/ ShareCreateMaterial
    \/ ShareRequest

SpecShare == Init /\ [][NextShare]_vars

\* SpecCreate: the three material-creation routes with and without URL and file
CreateMongo ==
    \E u \in Creators, type \in MaterialTypes, url \in {NoValue, "u"}, file \in BOOLEAN,
       folder \in 0..MaxFolders :
        CreateMaterial(u, type, url, file, folder, "9", "Both", "false")

CreateInFolder ==
    \E u \in Creators, folder \in 1..MaxFolders, type \in MaterialTypes,
       url \in {NoValue, "u"}, file \in BOOLEAN :
        UploadToFolder(u, folder, type, url, file)

CreateSql ==
    \E u \in Creators, type \in MaterialTypes, url \in {NoValue, "u"}, file \in BOOLEAN :
        SqlCreateMaterial(u, type, url, file, Null, TRUE, "false")

NextCreate ==
    \/ CatalogCreateFolder
    \/ CreateMongo
    \/ CreateInFolder
    \/ CreateSql

SpecCreate == Init /\ [][NextCreate]_vars

\* SpecDownload: two download requests whose steps interleave
InitDownload ==
    /\ Init!1 /\ Init!2 /\ Init!3 /\ Init!4 /\ Init!5 /\ Init!6 /\ Init!7
    /\ Init!8 /\ Init!9 /\ Init!10 /\ Init!11 /\ Init!12 /\ Init!13
    /\ reqs = [p \in Procs |-> IdleReq]

DownloadCreateMaterial ==
    \E u \in Creators, type \in MaterialTypes, folder \in 1..MaxFolders,
       isPublic \in {"true", "false"} :
        CreateMaterial(u, type, "u", TRUE, folder, "9", "Both", isPublic)

DownloadFind == \E p \in Procs, u \in Users, m \in 1..MaxCatalog : DlFind(p, u, m)

DownloadSave == \E p \in Procs : DlSave(p)

DownloadDelete == \E u \in Creators, m \in 1..MaxCatalog : DeleteMaterial(u, m, TRUE)

NextDownload ==
    \/ CatalogCreateFolder
    \/ DownloadCreateMaterial
    \/ DownloadFind
    \/ DownloadSave
    \/ DownloadDelete

SpecDownload == InitDownload /\ [][NextDownload]_vars

-----------------------------------------------------------------------------
(* Zoom sessions *)

SessionIds == DOMAIN sessions
SessionStatuses == {"scheduled", "started", "ended", "cancelled"}

ZoomCall_Uncaught(zoomOk) == IF zoomOk THEN "ok" ELSE "thrown"

\* an axios call to the Zoom API inside its own try/catch: a rejection is
\* logged by the catch and the handler goes on
ZoomCall(zoomOk) == IF zoomOk THEN "ok" ELSE "logged"

\* POST /api/zoom/sessions: the response
CreateSessionStatus(u, grade, program, zoomOk) ==
    IF ~isTeacher(u) THEN "denied"
    ELSE IF grade \notin {"9", "10", "11", "12"} \/ program \notin {"EST", "ACT", "Both"}
         THEN "invalid"
    ELSE IF ZoomCall(zoomOk) = "thrown" THEN "error"
    ELSE "ok"

\* zoomResponse.data: the meeting of the Zoom API, or the demo_ placeholder
\* built in the catch
ZoomResponse(zoomOk) ==
    IF ZoomCall(zoomOk) = "ok"
    THEN [id |-> "zoom", join_url |-> "zoom", start_url |-> "zoom"]
    ELSE [id |-> "demo", join_url |-> "demo", start_url |-> "demo"]

\* POST /api/zoom/sessions
CreateSessionAt(u, grade, program, scheduledTime, zoomOk) ==
    /\ IF CreateSessionStatus(u, grade, program, zoomOk) = "ok" THEN
            /\ sessionSeq' = sessionSeq + 1
            /\ sessions' = Insert(sessions, sessionSeq + 1,
                   [teacher |-> u, grade |-> grade, program |-> program, title |-> "t",
                    zoomMeetingId |-> ZoomResponse(zoomOk).id,
                    joinUrl |-> ZoomResponse(zoomOk).join_url,
                    startUrl |-> ZoomResponse(zoomOk).start_url,
                    scheduledTime |-> scheduledTime,
                    status |-> "scheduled", attendees |-> <<>>, materials |-> <<>>])
       ELSE UNCHANGED <<sessions, sessionSeq>>
    /\ UNCHANGED <<folders, materials, blobs, folderSeq, materialSeq, delStack, delInfo,
                   sqlMaterials, clock, joinLog, shareLog, reqs>>

\* POST /api/zoom/sessions of a session scheduled at time 0
CreateSession(u, grade, program, zoomOk) ==
    /\ sessionSeq < MaxSessions
    /\ CreateSessionAt(u, grade, program, 0, zoomOk)

\* ZoomSession.findOne({ _id, teacher }) behind isTeacher
SessionLookup(u, s) ==
    IF ~isTeacher(u) THEN "denied"
    ELSE IF ~(s \in SessionIds /\ sessions[s].teacher = u) THEN "not_found"
    ELSE "ok"

\* PUT /api/zoom/sessions/:id: the response; the Zoom API is called when a
\* title is given; save() validates the required title and the status enum
UpdateSessionStatus(u, s, title, status, zoomOk) ==
    IF SessionLookup(u, s) # "ok" THEN SessionLookup(u, s)
    ELSE IF Truthy(title) /\ ZoomCall(zoomOk) = "thrown" THEN "error"
    ELSE IF Truthy(title) /\ Trim(title[1]) = "" THEN "error"
    ELSE IF status # Absent /\ status[1] \notin SessionStatuses THEN "error"
    ELSE "ok"

\* PUT /api/zoom/sessions/:id
UpdateSession(u, s, title, status, zoomOk) ==
    /\ IF UpdateSessionStatus(u, s, title, status, zoomOk) = "ok"
       THEN sessions' = [sessions EXCEPT
                ![s].title = IF Truthy(title) THEN Trim(title[1]) ELSE @,
                ![s].status = IF status # Absent THEN status[1] ELSE @]
       ELSE UNCHANGED sessions
    /\ UNCHANGED <<folders, materials, blobs, folderSeq, materialSeq, delStack, delInfo,
                   sqlMaterials, sessionSeq, clock, joinLog, shareLog, reqs>>

\* DELETE /api/zoom/sessions/:id: the response
DeleteSessionStatus(u, s, zoomOk) ==
    IF SessionLookup(u, s) # "ok" THEN SessionLookup(u, s)
    ELSE IF ZoomCall(zoomOk) = "thrown" THEN "error"
    ELSE "ok"

\* DELETE /api/zoom/sessions/:id
DeleteSession(u, s, zoomOk) ==
    /\ IF DeleteSessionStatus(u, s, zoomOk) = "ok"
       THEN sessions' = Remove(sessions, {s})
       ELSE UNCHANGED sessions
    /\ UNCHANGED <<folders, materials, blobs, folderSeq, materialSeq, delStack, delInfo,
                   sqlMaterials, sessionSeq, clock, joinLog, shareLog, reqs>>

\* canJoin of the join route
CanJoin(doc, u) ==
    \/ doc.grade = StudentGrade(u)
    \/ doc.program = StudentProgram(u)
    \/ doc.program = "Both"

\* POST /api/zoom/sessions/:id/join: the response
JoinSessionStatus(u, s) ==
    IF s \notin SessionIds THEN "not_found"
    ELSE IF Role(u) = "student" /\ ~CanJoin(sessions[s], u) THEN "denied"
    ELSE "ok"

ExistingAttendee_Identity(attendees, u) == FALSE

\* session.attendees.find(attendee => attendee.student.toString() === req.user._id.toString())
ExistingAttendee(attendees, u) == \E i \in 1..Len(attendees) : attendees[i].student = u

\* POST /api/zoom/sessions/:id/join, handled without another request in between;
\* the clock reading of the request is new Date()
JoinSession(u, s) ==
    /\ clock < MaxClock
    /\ clock' = clock + 1
    /\ IF JoinSessionStatus(u, s) = "ok" THEN
            /\ sessions' = IF ExistingAttendee(sessions[s].attendees, u) THEN sessions
                           ELSE [sessions EXCEPT ![s].attendees =
                                    Append(@, [student |-> u, joinedAt |-> clock'])]
            /\ joinLog' = IF <<s, u>> \in DOMAIN joinLog
                          THEN [joinLog EXCEPT ![<<s, u>>].again = TRUE]
                          ELSE [x \in DOMAIN joinLog \cup {<<s, u>>} |->
                                   IF x = <<s, u>> THEN [again |-> FALSE, first |-> clock']
                                   ELSE joinLog[x]]
       ELSE UNCHANGED <<sessions, joinLog>>
    /\ UNCHANGED <<folders, materials, blobs, folderSeq, materialSeq, delStack, delInfo,
                   sqlMaterials, sessionSeq, shareLog, reqs>>

\* SpecSession: sessions are created, updated, joined and deleted, one request after the other
SessionCreate ==
    \E u \in {"t1", "s1"}, gp \in {<<"9", "Both">>, <<"11", "EST">>}, zoomOk \in BOOLEAN :
        CreateSession(u, gp[1], gp[2], zoomOk)

SessionUpdate ==
    \E u \in {"t1", "t2"}, s \in 1..MaxSessions, status \in {Absent, <<"started">>} :
        UpdateSession(u, s, Absent, status, TRUE)

SessionDelete == \E u \in {"t1", "t2"}, s \in 1..MaxSessions : DeleteSession(u, s, TRUE)

SessionJoin == \E u \in {"s1", "s2"}, s \in 1..MaxSessions : JoinSession(u, s)

NextSession ==
    \/ SessionCreate
    \/ SessionUpdate
    \/ SessionDelete
    \/ SessionJoin

SpecSession == Init /\ [][NextSession]_vars

-----------------------------------------------------------------------------
(* Properties of the folder hierarchy *)

\* C1: once deleteFolder(F) has completed, no folder of F's subtree (F included)
\* and no material whose folder lies in that subtree remains in the store,
\* whether the unlink of each file succeeded or failed.
C1_DeleteRemovesSubtree ==
    delInfo.done =>
        /\ delInfo.subtree \cap FolderIds = {}
        /\ delInfo.mats \cap MaterialIds = {}
        /\ \A m \in MaterialIds : materials[m].folder \notin delInfo.subtree

\* a delete has completed on a folder with two descendants and a material, one unlink failing
C1_Witness ==
    /\ delInfo.done
    /\ Cardinality(delInfo.subtree) >= 3
    /\ delInfo.mats # {}
    /\ delInfo.unlinkFailed

\* C2: the step of a successful createFolder stores the new folder with
\* path = parent's stored path, "/", name when it has a parent, and path = name otherwise.
C2_PathAtCreation ==
    [][folderSeq' = folderSeq + 1 =>
          LET f == folders'[folderSeq'] IN
          f.path = IF f.parentFolder # Null
                   THEN folders'[f.parentFolder].path \o "/" \o f.name
                   ELSE f.name]_vars

\* the newest folder was created under a parent that itself has a parent
C2_Witness ==
    /\ folderSeq \in FolderIds
    /\ folders[folderSeq].parentFolder \in FolderIds
    /\ folders[folders[folderSeq].parentFolder].parentFolder \in FolderIds
    /\ folders[folderSeq].path =
          folders[folders[folderSeq].parentFolder].path \o "/" \o folders[folderSeq].name

\* C3: in every reachable state every folder's stored path is its parent's stored
\* path, "/", its name when it has a parent, and its name otherwise.
C3_PathInvariant ==
    \A f \in FolderIds :
        folders[f].path =
            IF folders[f].parentFolder \in FolderIds
            THEN folders[folders[f].parentFolder].path \o "/" \o folders[f].name
            ELSE folders[f].name

-----------------------------------------------------------------------------
(* Properties of the material catalog *)

\* C4: when two download requests for the same material have both been served
\* successfully, the material's downloadCount is exactly 2 greater than the count
\* before either of them was handled.
C4_TwoDownloadsCountTwo ==
    (/\ reqs[1].pc = "done" /\ reqs[1].status = "ok"
     /\ reqs[2].pc = "done" /\ reqs[2].status = "ok"
     /\ reqs[1].id = reqs[2].id
     /\ reqs[1].id \in MaterialIds)
        => materials[reqs[1].id].downloadCount = 2

\* C5: the owner of a material or folder, a teacher or an admin, is never refused
\* by the access check of any action on it: reading, downloading, updating,
\* deleting and sharing the material, listing, updating and deleting the folder.
C5_OwnerAuthorized ==
    /\ \A m \in MaterialIds :
          LET o == materials[m].owner IN
          Role(o) \in {"teacher", "admin"} =>
              /\ GetMaterialStatus(o, m) \notin {"denied", "not_found"}
              /\ DownloadStatus(o, m) \notin {"denied", "not_found"}
              /\ UpdateMaterialStatus(o, m, EmptyPatch) \notin {"denied", "not_found"}
              /\ DeleteMaterialStatus(o, m) \notin {"denied", "not_found"}
              /\ \A ids \in StudentIdLists, perm \in Permissions :
                    ShareMaterialStatus(o, m, ids, perm) \notin {"denied", "not_found"}
    /\ \A f \in FolderIds :
          LET o == folders[f].owner IN
          Role(o) \in {"teacher", "admin"} =>
              /\ ListFolderMaterialsStatus(o, f) \notin {"denied", "not_found"}
              /\ UpdateFolderStatus(o, f, Absent) \notin {"denied", "not_found"}
              /\ DeleteFolderStatus(o, f) \notin {"denied", "not_found"}

\* an admin owns a private material in a private folder and has read and downloaded it
C5_Witness ==
    \E m \in MaterialIds :
        /\ materials[m].owner = "ad"
        /\ ~materials[m].isPublic
        /\ materials[m].viewCount = 1
        /\ materials[m].downloadCount = 1
        /\ materials[m].folder \in FolderIds
        /\ folders[materials[m].folder].owner = "ad"
        /\ ~folders[materials[m].folder].isPublic

C7_PublicReadForAll ==
    /\ \A m \in MaterialIds, u \in Users :
          materials[m].isPublic =>
              /\ GetMaterialStatus(u, m) \notin {"denied", "not_found"}
              /\ DownloadStatus(u, m) \notin {"denied", "not_found"}
    /\ \A f \in FolderIds, u \in Users :
          folders[f].isPublic => ListFolderMaterialsStatus(u, f) = "ok"

\* C8: in each of the three material-creation operations a link without a URL is
\* rejected with a validation error and stores no record, and a stored link
\* carries its URL and no file name, file path or file size.
C8_LinkNeedsUrl ==
    /\ \A i \in 1..Len(sqlMaterials) :
          sqlMaterials[i].type = "link" =>
              /\ sqlMaterials[i].url # NoValue
              /\ sqlMaterials[i].file_name = NoFile
              /\ sqlMaterials[i].file_path = NoFile
              /\ sqlMaterials[i].file_size = NoFile
    /\ \A m \in MaterialIds :
          materials[m].type = "link" =>
              /\ materials[m].url # NoValue
              /\ materials[m].fileName = NoFile
              /\ materials[m].filePath = NoFile
              /\ materials[m].fileSize = NoFile
    /\ \A f \in FolderIds, file \in BOOLEAN :
          /\ CreateMaterialStatus(folders[f].owner, "link", NoValue, file, f) = "invalid"
          /\ UploadToFolderStatus(folders[f].owner, f, "link", NoValue, file) = "invalid"

\* C9: after the owner's share requests on a material, handled one after the
\* other, each user named in them holds exactly one grant on the material, with
\* the permission of the latest request that named that user.
C9_ShareUpserts ==
    \A x \in DOMAIN shareLog :
        x[1] \in MaterialIds =>
            /\ Cardinality({i \in 1..Len(Grants(x[1])) : Grants(x[1])[i].user = x[2]}) = 1
            /\ \A i \in 1..Len(Grants(x[1])) :
                  Grants(x[1])[i].user = x[2] => Grants(x[1])[i].permission = shareLog[x]

-----------------------------------------------------------------------------
(* Properties of the sessions *)

\* C10: after one or more successful joins of the same eligible student to a
\* session, handled one after the other, the session's attendee list holds
\* exactly one entry for that student, and it is the entry of the first join.
C10_JoinIdempotent ==
    \A x \in DOMAIN joinLog :
        (x[1] \in SessionIds /\ x[2] \in Students) =>
            LET attendees == sessions[x[1]].attendees
                entries == {i \in 1..Len(attendees) : attendees[i].student = x[2]}
            IN /\ Cardinality(entries) = 1
               /\ \A i \in entries :
                     attendees[i] = [student |-> x[2], joinedAt |-> joinLog[x].first]

\* a student has joined a session again after another student joined it
C10_Witness ==
    \E x \in DOMAIN joinLog :
        /\ x[1] \in SessionIds
        /\ x[2] \in Students
        /\ joinLog[x].again
        /\ Len(sessions[x[1]].attendees) >= 2
        /\ sessions[x[1]].attendees[1].student = x[2]
        /\ clock > sessions[x[1]].attendees[2].joinedAt

-----------------------------------------------------------------------------
(* Session status *)

\* SpecStatus: the teacher's updates send every status value, and one the schema does not list
StatusUpdate ==
    \E u \in {"t1", "t2"}, s \in 1..MaxSessions,
       status \in {Absent} \cup {<<x>> : x \in SessionStatuses \cup {"paused"}} :
        UpdateSession(u, s, Absent, status, TRUE)

NextStatus ==
    \/ SessionCreate
    \/ StatusUpdate
    \/ SessionDelete
    \/ SessionJoin

SpecStatus == Init /\ [][NextStatus]_vars

StatusRank(st) == CASE st = "scheduled" -> 1 [] st = "started" -> 2 [] st = "ended" -> 3 [] OTHER -> 4

\* C11: in every step a session's status stays or moves forward through scheduled,
\* started, ended, never back to an earlier status, and a cancelled session stays
\* cancelled.
C11_StatusForward ==
    [][\A s \in SessionIds \cap DOMAIN sessions' :
          /\ sessions[s].status = "cancelled" => sessions'[s].status = "cancelled"
          /\ (sessions[s].status # "cancelled" /\ sessions'[s].status # "cancelled")
                => StatusRank(sessions'[s].status) >= StatusRank(sessions[s].status)]_vars

-----------------------------------------------------------------------------
(* Folders of several owners *)

\* SpecOwners: two teachers create and rename folders, under any parent id
OwnerUsers == {"t1", "t2"}

OwnersCreate ==
    \E u \in OwnerUsers, name \in FolderNames, parent \in 0..MaxFolders :
        CreateFolder(u, name, parent, "9", "Both", FALSE)

OwnersUpdate ==
    \E u \in OwnerUsers, id \in 1..MaxFolders, name \in {<<n>> : n \in FolderNames} \cup {Absent} :
        UpdateFolder(u, id, name, Absent)

NextOwners ==
    \/ OwnersCreate
    \/ OwnersUpdate

SpecOwners == Init /\ [][NextOwners]_vars

\* C12: a createFolder whose parent id refers to no existing folder, or to a folder
\* of another owner, stores no folder: the step that stores a new folder with a
\* parent finds that parent in the store, owned by the new folder's owner.
C12_ParentOwned ==
    [][folderSeq' = folderSeq + 1 =>
          LET f == folders'[folderSeq'] IN
          f.parentFolder # Null =>
              /\ f.parentFolder \in FolderIds
              /\ folders[f.parentFolder].owner = f.owner]_vars

\* C13: no two folders of one owner have both the same parent and the same name,
\* and a create or a rename to the name of an existing sibling of the same owner
\* is answered as a duplicate.
C13_NoDuplicateSiblings ==
    /\ \A f \in FolderIds, g \in FolderIds :
          (f # g /\ folders[f].owner = folders[g].owner
                 /\ folders[f].parentFolder = folders[g].parentFolder)
              => folders[f].name # folders[g].name
    /\ \A f \in FolderIds :
          CreateFolderStatus(folders[f].owner, folders[f].name, folders[f].parentFolder)
              = "duplicate"
    /\ \A f \in FolderIds, g \in FolderIds :
          (f # g /\ folders[f].owner = folders[g].owner
                 /\ folders[f].parentFolder = folders[g].parentFolder)
              => UpdateFolderStatus(folders[g].owner, g, <<folders[f].name>>) = "duplicate"

\* two folders of one owner are siblings under a parent, one of them renamed since
\* its creation, and a folder of another owner exists
C13_Witness ==
    \E f \in FolderIds, g \in FolderIds, h \in FolderIds :
        /\ f # g
        /\ folders[f].owner = folders[g].owner
        /\ folders[f].parentFolder = folders[g].parentFolder
        /\ folders[f].parentFolder \in FolderIds
        /\ folders[f].path # folders[folders[f].parentFolder].path \o "/" \o folders[f].name
        /\ folders[h].owner # folders[f].owner

-----------------------------------------------------------------------------
(* GET /api/materials/:id as the steps between its awaits, and the counters *)

\* await Material.findById and the access check
GetFind(p, u, m) ==
    /\ reqs[p].pc = "idle"
    /\ reqs' = [reqs EXCEPT ![p] =
           IF GetMaterialStatus(u, m) = "ok"
           THEN [pc |-> "saveView", user |-> u, id |-> m, doc |-> materials[m], status |-> "none"]
           ELSE [pc |-> "done", user |-> u, id |-> m, doc |-> << >>,
                 status |-> GetMaterialStatus(u, m)]]
    /\ UNCHANGED <<folders, materials, blobs, folderSeq, materialSeq, delStack, delInfo,
                   sqlMaterials, sessions, sessionSeq, clock, joinLog, shareLog>>

\* material.viewCount += 1 on the loaded document: the value save() writes
GetSaveCount(p) == reqs[p].doc.viewCount + 1

\* await material.save(): the modified path is written with $set
GetSave(p) ==
    /\ reqs[p].pc = "saveView"
    /\ IF reqs[p].id \in MaterialIds
       THEN /\ materials' = [materials EXCEPT ![reqs[p].id].viewCount = GetSaveCount(p)]
            /\ reqs' = [reqs EXCEPT ![p].pc = "done", ![p].status = "ok"]
       ELSE /\ reqs' = [reqs EXCEPT ![p].pc = "done", ![p].status = "error"]
            /\ UNCHANGED materials
    /\ UNCHANGED <<folders, blobs, folderSeq, materialSeq, delStack, delInfo,
                   sqlMaterials, sessions, sessionSeq, clock, joinLog, shareLog>>

\* SpecCounters: three clients, one request each, on one teacher's material,
\* with updates and share requests in between
Clients == {1, 2, 3}
Readers == {"t1", "t2", "s1"}

InitCounters ==
    /\ Init!1 /\ Init!2 /\ Init!3 /\ Init!4 /\ Init!5 /\ Init!6 /\ Init!7
    /\ Init!8 /\ Init!9 /\ Init!10 /\ Init!11 /\ Init!12 /\ Init!13
    /\ reqs = [p \in Clients |-> IdleReq]

CountersCreateFolder == CreateFolder("t1", "a", Null, "9", "Both", FALSE)

CountersCreateMaterial ==
    \E type \in MaterialTypes, isPublic \in {"true", "false"} :
        CreateMaterial("t1", type, "u", TRUE, 1, "9", "Both", isPublic)

CountersGetFind == \E p \in Clients, u \in Readers, m \in 1..MaxCatalog : GetFind(p, u, m)

CountersGetSave == \E p \in Clients : GetSave(p)

CountersDlFind == \E p \in Clients, u \in Readers, m \in 1..MaxCatalog : DlFind(p, u, m)

CountersDlSave == \E p \in Clients : DlSave(p)

CountersUpdate ==
    \E u \in {"t1", "t2"}, m \in 1..MaxCatalog, isPublic \in {<<TRUE>>, <<FALSE>>} :
        UpdateMaterial(u, m, [EmptyPatch EXCEPT !.isPublic = isPublic])

CountersShare == \E u \in {"t1", "t2"}, m \in 1..MaxCatalog : ShareMaterial(u, m, <<"s1">>, "read")

NextCounters ==
    \/ CountersCreateFolder
    \/ CountersCreateMaterial
    \/ CountersGetFind
    \/ CountersGetSave
    \/ CountersDlFind
    \/ CountersDlSave
    \/ CountersUpdate
    \/ CountersShare

SpecCounters == InitCounters /\ [][NextCounters]_vars

\* C14: in every step a material's viewCount and downloadCount do not decrease,
\* and when one of them changes it grows by exactly 1.
C14_CountersMonotonic ==
    [][\A m \in MaterialIds \cap DOMAIN materials' :
          /\ materials'[m].viewCount >= materials[m].viewCount
          /\ materials'[m].downloadCount >= materials[m].downloadCount
          /\ materials'[m].viewCount # materials[m].viewCount
                => materials'[m].viewCount = materials[m].viewCount + 1
          /\ materials'[m].downloadCount # materials[m].downloadCount
                => materials'[m].downloadCount = materials[m].downloadCount + 1]_vars

-----------------------------------------------------------------------------
(* Link and file material in both backends *)

\* SpecXor: the creation routes with every combination of type, URL and file,
\* and updates that send a URL
XorUpdate ==
    \E u \in Creators, m \in 1..MaxMaterials, url \in {Absent, <<"">>, <<"v">>} :
        UpdateMaterial(u, m, [EmptyPatch EXCEPT !.url = url])

NextXor ==
    \/ CatalogCreateFolder
    \/ CreateMongo
    \/ CreateInFolder
    \/ CreateSql
    \/ XorUpdate

SpecXor == Init /\ [][NextXor]_vars

\* C15: every stored material of type link has a URL and no file name or path,
\* and every stored material of another type has a file name and path and no URL,
\* in the document store and in the SQLite table.
C15_LinkXorFile ==
    /\ \A m \in MaterialIds :
          IF materials[m].type = "link"
          THEN /\ materials[m].url # NoValue
               /\ materials[m].fileName = NoFile /\ materials[m].filePath = NoFile
          ELSE /\ materials[m].fileName # NoFile /\ materials[m].filePath # NoFile
               /\ materials[m].url = NoValue
    /\ \A i \in 1..Len(sqlMaterials) :
          IF sqlMaterials[i].type = "link"
          THEN /\ sqlMaterials[i].url # NoValue
               /\ sqlMaterials[i].file_name = NoFile /\ sqlMaterials[i].file_path = NoFile
          ELSE /\ sqlMaterials[i].file_name # NoFile /\ sqlMaterials[i].file_path # NoFile
               /\ sqlMaterials[i].url = NoValue

-----------------------------------------------------------------------------
(* Materials placed in folders *)

\* SpecPlace: the three creation routes with folder ids of the creator, of another
\* owner and of no folder
PlaceCreateFolder == \E u \in OwnerUsers : CreateFolder(u, "a", Null, "9", "Both", FALSE)

PlaceMongo ==
    \E u \in OwnerUsers, type \in MaterialTypes, folder \in 0..MaxFolders :
        CreateMaterial(u, type, "u", TRUE, folder, "9", "Both", "false")

PlaceInFolder ==
    \E u \in OwnerUsers, folder \in 1..MaxFolders, type \in MaterialTypes :
        UploadToFolder(u, folder, type, "u", TRUE)

PlaceSql ==
    \E u \in {"t1", "ad"}, type \in MaterialTypes, folder_id \in {Null, 1, 2}, fk \in BOOLEAN :
        SqlCreateMaterial(u, type, "u", TRUE, folder_id, fk, "false")

NextPlace ==
    \/ PlaceCreateFolder
    \/ PlaceMongo
    \/ PlaceInFolder
    \/ PlaceSql

SpecPlace == Init /\ [][NextPlace]_vars

\* C16: every stored material with a folder refers to an existing folder of the
\* material's own owner, in the document store and in the SQLite table: a creation
\* with the id of no folder or of another owner's folder stores nothing.
C16_FolderOfOwner ==
    /\ \A m \in MaterialIds :
          materials[m].folder # Null =>
              /\ materials[m].folder \in FolderIds
              /\ folders[materials[m].folder].owner = materials[m].owner
    /\ \A i \in 1..Len(sqlMaterials) :
          sqlMaterials[i].folder_id # Null =>
              /\ sqlMaterials[i].folder_id \in DOMAIN SqlFolderOwner
              /\ SqlFolderOwner[sqlMaterials[i].folder_id] = sqlMaterials[i].owner_id

-----------------------------------------------------------------------------
(* Requests of principals who do not own the record *)

\* SpecMutate: owners and other principals update, delete and share materials,
\* update and delete folders, update and delete sessions; the folders and
\* materials are t1's, the sessions t2's
MutateUsers == {"t1", "t2", "s1"}
MutatePatches == {EmptyPatch, [EmptyPatch EXCEPT !.title = <<" x">>, !.isPublic = <<TRUE>>]}

\* t1 creates a folder when none is left
MutateCreateFolder == FolderIds = {} /\ CreateFolder("t1", "a", Null, "9", "Both", FALSE)

MutateCreateMaterial ==
    \E folder \in 1..MaxFolders :
        CreateMaterial("t1", "pdf", NoValue, TRUE, folder, "9", "Both", "false")

MutateUpdateMaterial ==
    \E u \in MutateUsers, m \in 1..MaxCatalog, patch \in MutatePatches : UpdateMaterial(u, m, patch)

MutateDeleteMaterial ==
    \E u \in MutateUsers, m \in 1..MaxCatalog : DeleteMaterial(u, m, TRUE)

MutateShare ==
    \E u \in {"t2", "s1"}, m \in 1..MaxCatalog : ShareMaterial(u, m, <<"s1">>, "read")

MutateUpdateFolder ==
    \E u \in MutateUsers, id \in 1..MaxFolders, name \in {Absent, <<"b">>} :
        UpdateFolder(u, id, name, Absent)

MutateDeleteFolder == \E u \in MutateUsers, id \in 1..MaxFolders : DeleteFolderRoute(u, id)

MutateCreateSession == CreateSession("t2", "9", "Both", TRUE)

MutateUpdateSession ==
    \E u \in MutateUsers, s \in 1..MaxSessions : UpdateSession(u, s, Absent, <<"started">>, TRUE)

MutateDeleteSession == \E u \in MutateUsers, s \in 1..MaxSessions : DeleteSession(u, s, TRUE)

NextMutate ==
    \/ MutateCreateFolder
    \/ MutateCreateMaterial
    \/ MutateUpdateMaterial
    \/ MutateDeleteMaterial
    \/ MutateShare
    \/ MutateUpdateFolder
    \/ MutateDeleteFolder
    \/ DeleteFolderSteps
    \/ MutateCreateSession
    \/ MutateUpdateSession
    \/ MutateDeleteSession

SpecMutate == Init /\ [][NextMutate]_vars

Rejected == {"denied", "not_found"}
StoreUnchanged == UNCHANGED <<folders, materials, blobs, sessions, sqlMaterials, delStack>>

\* C17: an update, delete or share of a material, an update or delete of a folder
\* and an update or delete of a session by a principal who does not own the record
\* is answered as denied or not found, and the step of such a request leaves every
\* record of the store unchanged.
C17_NonOwnerRejected ==
    [][vars' # vars => \A u \in MutateUsers :
          /\ \A m \in MaterialIds :
                materials[m].owner # u =>
                    /\ \A patch \in MutatePatches :
                          /\ UpdateMaterialStatus(u, m, patch) \in Rejected
                          /\ UpdateMaterial(u, m, patch) => StoreUnchanged
                    /\ DeleteMaterialStatus(u, m) \in Rejected
                    /\ \A unlinked \in BOOLEAN : DeleteMaterial(u, m, unlinked) => StoreUnchanged
                    /\ ShareMaterialStatus(u, m, <<"s1">>, "read") \in Rejected
                    /\ ShareMaterial(u, m, <<"s1">>, "read") => StoreUnchanged
          /\ \A f \in FolderIds :
                folders[f].owner # u =>
                    /\ \A name \in {Absent, <<"b">>} :
                          /\ UpdateFolderStatus(u, f, name) \in Rejected
                          /\ UpdateFolder(u, f, name, Absent) => StoreUnchanged
                    /\ DeleteFolderStatus(u, f) \in Rejected
                    /\ DeleteFolderRoute(u, f) => StoreUnchanged
          /\ \A s \in SessionIds :
                sessions[s].teacher # u =>
                    /\ UpdateSessionStatus(u, s, Absent, <<"started">>, TRUE) \in Rejected
                    /\ UpdateSession(u, s, Absent, <<"started">>, TRUE) => StoreUnchanged
                    /\ SessionLookup(u, s) \in Rejected
                    /\ DeleteSession(u, s, TRUE) => StoreUnchanged]_vars

\* t1's material was retitled and its folder renamed by t1, t2's session was
\* started by t2, after an earlier folder was deleted: the owners' requests took
\* effect where the others' requests on the same records could not
C17_Witness ==
    /\ \E m \in MaterialIds : materials[m].owner = "t1" /\ materials[m].title = "x"
    /\ \E f \in FolderIds : folders[f].owner = "t1" /\ folders[f].name = "b" /\ f > 1
    /\ 1 \notin FolderIds
    /\ \E s \in SessionIds : sessions[s].teacher = "t2" /\ sessions[s].status = "started"

-----------------------------------------------------------------------------
(* Partial update of a material *)

\* SpecPatch: the owner's updates with patches of one and of several fields,
\* among them an empty description, an empty title and a date that does not parse
StepPatches ==
    {[EmptyPatch EXCEPT !.title = <<" x">>],
     [EmptyPatch EXCEPT !.title = <<" ">>],
     [EmptyPatch EXCEPT !.description = <<"">>],
     [EmptyPatch EXCEPT !.description = <<"d">>],
     [EmptyPatch EXCEPT !.url = <<"v">>],
     [EmptyPatch EXCEPT !.isPublic = <<TRUE>>],
     [EmptyPatch EXCEPT !.tags = <<<<"a", " x">>>>, !.dueDate = <<"2027-01-01">>,
                        !.priority = <<"high">>],
     [EmptyPatch EXCEPT !.dueDate = <<"soon">>, !.isPublic = <<FALSE>>]}

PatchCreateMaterial ==
    \E type \in MaterialTypes :
        CreateMaterial("t1", type, "u", TRUE, 1, "9", "Both", "false")

PatchUpdate ==
    \E u \in {"t1", "t2"}, m \in 1..MaxCatalog, patch \in StepPatches : UpdateMaterial(u, m, patch)

PatchGet == \E m \in 1..MaxCatalog : GetMaterial("t1", m)

NextPatch ==
    \/ CountersCreateFolder
    \/ PatchCreateMaterial
    \/ PatchUpdate
    \/ PatchGet

SpecPatch == Init /\ [][NextPatch]_vars

\* the values a patch field is sent with
PatchValues(f) ==
    CASE f = "title" -> {"x", " x"}
      [] f = "description" -> {"", " ", "d"}
      [] f = "url" -> {"", "v"}
      [] f = "tags" -> {<<>>, <<"a", " x">>}
      [] f = "dueDate" -> {"", "2027-01-01"}
      [] f = "priority" -> {"", "low", "high"}
      [] OTHER -> {TRUE, FALSE}

FramePatches ==
    StepPatches \cup {EmptyPatch}
        \cup UNION {{[EmptyPatch EXCEPT ![f] = <<v>>] : v \in PatchValues(f)} : f \in PatchFields}

\* C18: an update of a material by its owner changes no field that the patch
\* omits and none of owner, type, folder, file name, path and size, share list,
\* viewCount and downloadCount; an empty description is stored as empty.
C18_UpdateFrame ==
    \A m \in MaterialIds, patch \in FramePatches :
        UpdateMaterialStatus(materials[m].owner, m, patch) = "ok" =>
            LET old == materials[m]
                new == PatchedDoc(old, patch)
            IN /\ DOMAIN new = DOMAIN old
               /\ \A f \in PatchFields : patch[f] = Absent => new[f] = old[f]
               /\ \A f \in (DOMAIN old) \ PatchFields : new[f] = old[f]
               /\ patch.description = <<"">> => new.description = ""

\* a link whose title, url, tags, due date and priority were set by updates, whose
\* description was then emptied, and which has been read since
C18_Witness ==
    \E m \in MaterialIds :
        /\ materials[m].type = "link"
        /\ materials[m].title = "x"
        /\ materials[m].url = "v"
        /\ materials[m].tags = <<"a", "x">>
        /\ materials[m].priority = "high"
        /\ materials[m].description = ""
        /\ materials[m].isPublic
        /\ materials[m].viewCount = 1

-----------------------------------------------------------------------------
(* POST /api/materials/:id/share as the steps between its awaits *)

\* validationResult and await Material.findOne({_id, owner}): the request holds
\* the document it loaded; overlap records that another request on the same
\* material had loaded it and not yet saved
ShareFind(p, u, m, studentIds, permission) ==
    /\ reqs[p].pc = "idle"
    /\ reqs' = [reqs EXCEPT ![p] =
           IF ShareMaterialStatus(u, m, studentIds, permission) \in {"ok", "error"}
           THEN [pc |-> "shareLoop", user |-> u, id |-> m, doc |-> materials[m],
                 status |-> "none", studentIds |-> studentIds, permission |-> permission,
                 overlap |-> \E q \in Procs \ {p} :
                                reqs[q].pc = "shareLoop" /\ reqs[q].id = m]
           ELSE [pc |-> "done", user |-> u, id |-> m, doc |-> << >>,
                 status |-> ShareMaterialStatus(u, m, studentIds, permission),
                 studentIds |-> studentIds, permission |-> permission, overlap |-> FALSE]]
    /\ UNCHANGED <<folders, materials, blobs, folderSeq, materialSeq, delStack, delInfo,
                   sqlMaterials, sessions, sessionSeq, clock, joinLog, shareLog>>

\* what save() writes of the list the loop left on the loaded document: the
\* grants pushed are appended to the stored list, the permission of a grant
\* that was found is set at its index
ShareSaved(stored, loaded, looped) ==
    [i \in 1..Len(stored) |->
        IF i <= Len(loaded) /\ looped[i] # loaded[i]
        THEN [stored[i] EXCEPT !.permission = looped[i].permission]
        ELSE stored[i]]
      \o SubSeq(looped, Len(loaded) + 1, Len(looped))

\* the for loop over studentIds on the loaded document, then await
\* material.save(); the loop throws when the document has no share list, the
\* save when the document was deleted meanwhile
ShareSave(p) ==
    /\ reqs[p].pc = "shareLoop"
    /\ LET m == reqs[p].id
           loaded == SharedWith(reqs[p].doc)
       IN IF loaded = Undefined \/ m \notin MaterialIds
          THEN /\ reqs' = [reqs EXCEPT ![p].pc = "done", ![p].status = "error"]
               /\ UNCHANGED materials
          ELSE /\ materials' = [materials EXCEPT ![m] =
                      [f \in DOMAIN @ \cup {"sharedWith"} |->
                          IF f = "sharedWith"
                          THEN ShareSaved(Grants(m), loaded,
                                          ShareLoop(loaded, reqs[p].studentIds,
                                                    reqs[p].permission))
                          ELSE @[f]]]
               /\ reqs' = [reqs EXCEPT ![p].pc = "done", ![p].status = "ok"]
    /\ UNCHANGED <<folders, blobs, folderSeq, materialSeq, delStack, delInfo,
                   sqlMaterials, sessions, sessionSeq, clock, joinLog, shareLog>>

\* SpecShareRace: two share requests in flight at once on a teacher's material
RaceCreateMaterial ==
    \E type \in {"pdf", "link"} :
        CreateMaterial("t1", type, "u", TRUE, 1, "9", "Both", "false")

RaceShareFind ==
    \E p \in Procs, u \in {"t1", "t2", "s1"}, m \in 1..MaxCatalog,
       studentIds \in {<< >>, <<"s1">>, <<"s1", "s2">>, <<"s1", "s1">>},
       permission \in {"read", "write"} :
        ShareFind(p, u, m, studentIds, permission)

RaceShareSave == \E p \in Procs : ShareSave(p)

RaceDelete == \E m \in 1..MaxCatalog, unlinked \in BOOLEAN : DeleteMaterial("t1", m, unlinked)

NextShareRace ==
    \/ CountersCreateFolder
    \/ RaceCreateMaterial
    \/ RaceShareFind
    \/ RaceShareSave
    \/ RaceDelete

SpecShareRace == InitDownload /\ [][NextShareRace]_vars

-----------------------------------------------------------------------------
(* POST /api/zoom/sessions/:id/join as the steps between its awaits *)

\* await ZoomSession.findById, the eligibility check, attendees.find on the
\* loaded document and the push with new Date(); a request that finds its entry
\* answers without saving
JoinFind(p, u, s) ==
    /\ reqs[p].pc = "idle"
    /\ clock < MaxClock
    /\ clock' = clock + 1
    /\ reqs' = [reqs EXCEPT ![p] =
           IF JoinSessionStatus(u, s) = "ok" /\ ~ExistingAttendee(sessions[s].attendees, u)
           THEN [pc |-> "joinSave", user |-> u, id |-> s, doc |-> sessions[s],
                 status |-> "none", joinedAt |-> clock']
           ELSE [pc |-> "done", user |-> u, id |-> s, doc |-> << >>,
                 status |-> JoinSessionStatus(u, s), joinedAt |-> Null]]
    /\ UNCHANGED <<folders, materials, blobs, folderSeq, materialSeq, delStack, delInfo,
                   sqlMaterials, sessions, sessionSeq, joinLog, shareLog>>

\* await session.save(): the pushed entry is written with $push onto the stored
\* list; the save of a session that was deleted meanwhile throws
JoinSave(p) ==
    /\ reqs[p].pc = "joinSave"
    /\ IF reqs[p].id \in SessionIds
       THEN /\ sessions' = [sessions EXCEPT ![reqs[p].id].attendees =
                               Append(@, [student |-> reqs[p].user,
                                          joinedAt |-> reqs[p].joinedAt])]
            /\ reqs' = [reqs EXCEPT ![p].pc = "done", ![p].status = "ok"]
       ELSE /\ reqs' = [reqs EXCEPT ![p].pc = "done", ![p].status = "error"]
            /\ UNCHANGED sessions
    /\ UNCHANGED <<folders, materials, blobs, folderSeq, materialSeq, delStack, delInfo,
                   sqlMaterials, sessionSeq, clock, joinLog, shareLog>>

\* SpecJoinRace: two join requests in flight at once on a teacher's session
RaceCreateSession ==
    \E gp \in {<<"9", "Both">>, <<"11", "EST">>} : CreateSession("t1", gp[1], gp[2], TRUE)

RaceJoinFind == \E p \in Procs, u \in {"s1", "s2"}, s \in 1..MaxSessions : JoinFind(p, u, s)

RaceJoinSave == \E p \in Procs : JoinSave(p)

RaceDeleteSession == \E s \in 1..MaxSessions : DeleteSession("t1", s, TRUE)

NextJoinRace ==
    \/ RaceCreateSession
    \/ RaceJoinFind
    \/ RaceJoinSave
    \/ RaceDeleteSession

SpecJoinRace == InitDownload /\ [][NextJoinRace]_vars

\* C20: whatever the interleaving of the join requests of one student on a
\* session, its attendee list holds at most one entry for that student.
C20_OneEntryPerStudent ==
    \A s \in SessionIds :
        \A i, j \in 1..Len(sessions[s].attendees) :
            sessions[s].attendees[i].student = sessions[s].attendees[j].student => i = j

-----------------------------------------------------------------------------
(* Sessions and the outcome of the Zoom API calls *)

\* SpecZoom: session requests whose Zoom API call succeeds or fails
ZoomGrades == {<<"9", "Both">>, <<"8", "Both">>}
ZoomTitles == {Absent, <<" x">>, <<" ">>}
ZoomStatuses == {Absent, <<"started">>}

ZoomCreate ==
    \E u \in {"t1", "s1"}, gp \in ZoomGrades, zoomOk \in BOOLEAN :
        CreateSession(u, gp[1], gp[2], zoomOk)

ZoomUpdate ==
    \E u \in {"t1", "t2"}, s \in 1..MaxSessions, title \in ZoomTitles,
       status \in ZoomStatuses, zoomOk \in BOOLEAN :
        UpdateSession(u, s, title, status, zoomOk)

ZoomDelete ==
    \E u \in {"t1", "t2"}, s \in 1..MaxSessions, zoomOk \in BOOLEAN : DeleteSession(u, s, zoomOk)

ZoomJoin == \E s \in 1..MaxSessions : JoinSession("s1", s)

NextZoom ==
    \/ ZoomCreate
    \/ ZoomUpdate
    \/ ZoomDelete
    \/ ZoomJoin

SpecZoom == Init /\ [][NextZoom]_vars

\* C21: a session create, update or delete answers and changes the store in the
\* same way whether the Zoom API call succeeds or fails: the failed call is
\* never answered as an error, a create whose call failed stores the session
\* with the placeholder meeting id and urls, an update applies the given
\* fields and a delete removes the record.
C21_ProviderBestEffort ==
    [][vars' # vars =>
          /\ \A u \in {"t1", "s1"}, gp \in ZoomGrades :
                /\ CreateSessionStatus(u, gp[1], gp[2], FALSE)
                       = CreateSessionStatus(u, gp[1], gp[2], TRUE)
                /\ (CreateSession(u, gp[1], gp[2], FALSE) /\ isTeacher(u) /\ gp[1] = "9") =>
                       /\ sessionSeq' = sessionSeq + 1
                       /\ sessionSeq' \in DOMAIN sessions'
                       /\ sessions'[sessionSeq'].teacher = u
                       /\ sessions'[sessionSeq'].zoomMeetingId = "demo"
                       /\ sessions'[sessionSeq'].joinUrl = "demo"
                       /\ sessions'[sessionSeq'].startUrl = "demo"
          /\ \A u \in {"t1", "t2"}, s \in SessionIds :
                /\ \A title \in ZoomTitles, status \in ZoomStatuses :
                      /\ UpdateSessionStatus(u, s, title, status, FALSE)
                             = UpdateSessionStatus(u, s, title, status, TRUE)
                      /\ UpdateSession(u, s, title, status, FALSE) =>
                             /\ UpdateSession(u, s, title, status, TRUE)
                             /\ UpdateSessionStatus(u, s, title, status, TRUE) = "ok" =>
                                   /\ Truthy(title) => sessions'[s].title = Trim(title[1])
                                   /\ status # Absent => sessions'[s].status = status[1]
                /\ DeleteSessionStatus(u, s, FALSE) = DeleteSessionStatus(u, s, TRUE)
                /\ DeleteSession(u, s, FALSE) =>
                       /\ DeleteSession(u, s, TRUE)
                       /\ sessions[s].teacher = u => s \notin DOMAIN sessions']_vars

\* a session stored with the placeholder meeting id whose title and status were
\* then updated
C21_Witness ==
    \E s \in SessionIds :
        /\ sessions[s].zoomMeetingId = "demo"
        /\ sessions[s].joinUrl = "demo"
        /\ sessions[s].title = "x"
        /\ sessions[s].status = "started"

-----------------------------------------------------------------------------
(* POST /api/zoom/sessions/:id/materials *)

NotArray == "not an array"

\* [...session.materials]: the elements of the loaded array are ObjectId
\* objects, each one an object of its own
LoadedIds(list) == [i \in 1..Len(list) |-> [kind |-> "ObjectId", ref |-> i, id |-> list[i]]]

\* [...materialIds]: the ids of the JSON body are strings
BodyIds(materialIds) ==
    [i \in 1..Len(materialIds) |-> [kind |-> "string", ref |-> 0, id |-> materialIds[i]]]

\* the equality of Set: strings by value, objects by reference
SameValueZero(a, b) ==
    /\ a.kind = b.kind
    /\ IF a.kind = "string" THEN a.id = b.id ELSE a.ref = b.ref

RECURSIVE NewSet(_, _)
\* [...new Set(values)]: the first occurrence of each value, in insertion order
NewSet(values, kept) ==
    IF values = << >> THEN kept
    ELSE NewSet(Tail(values),
                IF \E i \in 1..Len(kept) : SameValueZero(kept[i], Head(values))
                THEN kept ELSE Append(kept, Head(values)))

\* the assignment to session.materials casts every element to an ObjectId
CastIds(values) == [i \in 1..Len(values) |-> values[i].id]

\* POST /api/zoom/sessions/:id/materials: the response
AddMaterialsStatus(u, s, materialIds) ==
    IF SessionLookup(u, s) # "ok" THEN SessionLookup(u, s)
    ELSE IF materialIds = NotArray THEN "invalid"
    ELSE "ok"

\* POST /api/zoom/sessions/:id/materials
AddMaterials(u, s, materialIds) ==
    /\ IF AddMaterialsStatus(u, s, materialIds) = "ok"
       THEN /\ Len(sessions[s].materials) + Len(materialIds) <= MaxAttached
            /\ sessions' = [sessions EXCEPT ![s].materials =
                   CastIds(NewSet(LoadedIds(@) \o BodyIds(materialIds), << >>))]
       ELSE UNCHANGED sessions
    /\ UNCHANGED <<folders, materials, blobs, folderSeq, materialSeq, delStack, delInfo,
                   sqlMaterials, sessionSeq, clock, joinLog, shareLog, reqs>>

\* SpecAttach: teachers attach materials to their sessions
AttachCreate ==
    \E u \in {"t1", "t2"}, zoomOk \in BOOLEAN : CreateSession(u, "9", "Both", zoomOk)

AttachAdd ==
    \E u \in {"t1", "t2"}, s \in 1..MaxSessions,
       materialIds \in {NotArray, << >>, <<1>>, <<2>>, <<3>>, <<1, 1>>, <<1, 2>>} :
        AddMaterials(u, s, materialIds)

AttachDelete == \E u \in {"t1", "t2"}, s \in 1..MaxSessions : DeleteSession(u, s, TRUE)

NextAttach ==
    \/ AttachCreate
    \/ AttachAdd
    \/ AttachDelete

SpecAttach == Init /\ [][NextAttach]_vars

\* C22: each material id occurs at most once in a session's materials list.
C22_AttachedOnce ==
    \A s \in SessionIds :
        \A i, j \in 1..Len(sessions[s].materials) :
            sessions[s].materials[i] = sessions[s].materials[j] => i = j

-----------------------------------------------------------------------------
(* GET /api/students/:id/progress *)

MaxReported == 3    \* ZoomSession documents of the progress report

\* ZoomSession.find({'attendees.student': student._id}).length
SessionsAttended(st) ==
    Cardinality({s \in SessionIds : ExistingAttendee(sessions[s].attendees, st)})

\* ZoomSession.countDocuments({$or: [grade, program, 'Both'], scheduledTime: {$lte: new Date()}})
TotalSessions(st, now) ==
    Cardinality({s \in SessionIds : CanJoin(sessions[s], st) /\ sessions[s].scheduledTime <= now})

MathRound_Floor(num, den) == num \div den

\* Math.round of the quotient num / den: the nearest integer, a half goes up
MathRound(num, den) == (2 * num + den) \div (2 * den)

\* attendanceRate of the report, after Math.round
AttendanceRate(st, now) ==
    IF TotalSessions(st, now) > 0
    THEN MathRound(SessionsAttended(st) * 100, TotalSessions(st, now))
    ELSE 0

\* GET /api/students/:id/progress: the response
ProgressStatus(u, id) ==
    IF ~isTeacher(u) THEN "denied"
    ELSE IF Role(id) # "student" THEN "not_found"
    ELSE "ok"

\* GET /api/students/:id/progress: the report is computed, nothing is written
GetProgress(u, id) ==
    /\ ProgressStatus(u, id) = "ok" => AttendanceRate(id, clock) >= 0
    /\ UNCHANGED vars

\* time passes between requests
Tick ==
    /\ clock < MaxClock
    /\ clock' = clock + 1
    /\ UNCHANGED <<folders, materials, blobs, folderSeq, materialSeq, delStack, delInfo,
                   sqlMaterials, sessions, sessionSeq, joinLog, shareLog, reqs>>

\* SpecProgress: sessions scheduled at several times, one of them later than
\* every clock reading, joined by a student and reported
ProgressCreate ==
    /\ sessionSeq < MaxReported
    /\ \E gp \in {<<"9", "Both">>, <<"11", "ACT">>}, scheduledTime \in {0, 2, MaxClock + 1} :
          CreateSessionAt("t1", gp[1], gp[2], scheduledTime, TRUE)

ProgressJoin == \E s \in 1..MaxReported : JoinSession("s1", s)

ProgressGet == \E u \in {"t1", "s1"}, id \in {"s1", "s2", "t2"} : GetProgress(u, id)

NextProgress ==
    \/ ProgressCreate
    \/ ProgressJoin
    \/ ProgressGet
    \/ Tick

SpecProgress == Init /\ [][NextProgress]_vars

\* the sessions a student is eligible for whose scheduled time is not in the future
EligiblePast(st) ==
    {s \in SessionIds : /\ sessions[s].scheduledTime <= clock
                        /\ \/ sessions[s].grade = StudentGrade(st)
                           \/ sessions[s].program = StudentProgram(st)
                           \/ sessions[s].program = "Both"}

\* the sessions that hold an attendee entry of a student
Attended(st) ==
    {s \in SessionIds : \E i \in 1..Len(sessions[s].attendees) :
                            sessions[s].attendees[i].student = st}

\* C23: the attendance rate of a student's progress report is the number of
\* sessions attended divided by the number of eligible past sessions, times
\* 100, rounded to the nearest integer, and 0 when there is no eligible past
\* session.
C23_AttendanceRate ==
    \A st \in Students :
        LET rate == AttendanceRate(st, clock)
            a == Cardinality(Attended(st))
            t == Cardinality(EligiblePast(st))
        IN IF t = 0 THEN rate = 0
           ELSE /\ 2 * (rate * t - 100 * a) <= t
                /\ 2 * (100 * a - rate * t) <= t

\* s1 attended two of its three eligible past sessions: the rate is 67
C23_Witness ==
    /\ Cardinality(EligiblePast("s1")) = 3
    /\ Cardinality(Attended("s1")) = 2
    /\ AttendanceRate("s1", clock) = 67

-----------------------------------------------------------------------------
(* Order of the deletions of deleteFolder *)

\* the folder and material records that refer to folder f
ReferringFolders(f) == {g \in FolderIds : folders[g].parentFolder = f}
ReferringMaterials(f) == {m \in MaterialIds : materials[m].folder = f}

\* no record refers to a folder that is not stored
NoDanglingFolder ==
    /\ \A g \in FolderIds : folders[g].parentFolder \in FolderIds \cup {Null}
    /\ \A m \in MaterialIds : materials[m].folder \in FolderIds \cup {Null}

\* C24: deleteFolder deletes depth-first: when the record of a folder X is
\* deleted, no child folder of X and no material in X is left, so no folder or
\* material record ever refers to a folder that has been deleted.
C24_ChildrenFirst ==
    [][/\ \A f \in FolderIds \ DOMAIN folders' :
             ReferringFolders(f) = {} /\ ReferringMaterials(f) = {}
       /\ NoDanglingFolder']_vars

\* in the middle of a delete of a folder with two descendants: a descendant and
\* a material are already deleted, the folder itself is still stored
C24_Witness ==
    /\ ~Idle
    /\ delInfo.root \in FolderIds
    /\ Cardinality(delInfo.subtree) >= 3
    /\ delInfo.subtree \ FolderIds # {}
    /\ delInfo.mats \ MaterialIds # {}
    /\ NoDanglingFolder

-----------------------------------------------------------------------------
(* Termination of deleteFolder *)

\* SpecTerminate: the requests of SpecFolder; a deleteFolder that has been
\* called is continued after each of its awaits
SpecTerminate == SpecFolder /\ WF_vars(DeleteFolderSteps)

RECURSIVE AncestorsOf(_, _)
\* the folders reached from f along parentFolder in at most n steps, f excluded
AncestorsOf(f, n) ==
    IF n = 0 \/ f \notin FolderIds \/ folders[f].parentFolder = Null THEN {}
    ELSE {folders[f].parentFolder} \cup AncestorsOf(folders[f].parentFolder, n - 1)

\* no folder is its own ancestor
Acyclic == \A f \in FolderIds : f \notin AncestorsOf(f, Cardinality(FolderIds))

\* a recursive call is made for a child of the folder of the calling frame, a
\* folder that is in no frame of the stack
RecursionDeeper ==
    (~Idle /\ Len(delStack') > Len(delStack)) =>
        LET g == delStack'[Len(delStack')].folder
        IN /\ g \in FolderIds
           /\ folders[g].parentFolder = Top.folder
           /\ \A i \in 1..Len(delStack) : delStack[i].folder # g

\* C25: deleteFolder terminates on every reachable hierarchy: no folder is its
\* own ancestor, every recursive call is on a child folder that is not being
\* deleted by a calling frame (none for a folder without child folders), and a
\* delete that has started completes.
C25_DeleteTerminates ==
    /\ []Acyclic
    /\ [][RecursionDeeper]_vars
    /\ (~Idle ~> (Idle /\ delInfo.done))

\* a delete has completed on a folder with two descendants; no folder is left
C25_Witness ==
    /\ Idle /\ delInfo.done
    /\ Cardinality(delInfo.subtree) = 3
    /\ FolderIds = {}
    /\ folderSeq = 3

-----------------------------------------------------------------------------
(* Folder and material creation while a deleteFolder is running *)

\* SpecConcurrent: a teacher's create, upload and delete requests, the creates
\* and uploads handled between the awaits of a running deleteFolder as well
ConcurrentCreateFolder ==
    /\ \E parent \in 0..MaxFolders : CreateFolderHandler("t1", "a", parent, "9", "Both", FALSE)
    /\ UNCHANGED delInfo

ConcurrentUpload ==
    /\ \E id \in 1..MaxFolders, type \in MaterialTypes :
          UploadToFolderHandler("t1", id, type, "u", TRUE)
    /\ UNCHANGED delInfo

ConcurrentCreateMaterial ==
    \E folder \in 0..MaxFolders :
        CreateMaterial("t1", "pdf", NoValue, TRUE, folder, "9", "Both", "false")

NextConcurrent ==
    \/ ConcurrentCreateFolder
    \/ ConcurrentUpload
    \/ ConcurrentCreateMaterial
    \/ FolderDelete
    \/ DeleteFolderSteps

SpecConcurrent == Init /\ [][NextConcurrent]_vars

\* C26: under every interleaving of create-folder, upload and delete-folder
\* requests, every folder's parent and every material's folder is null or a
\* stored folder, and after a completed deleteFolder(F) no record refers to F
\* or to a deleted descendant of F.
C26_NoDanglingReference ==
    /\ \A g \in FolderIds : folders[g].parentFolder \in FolderIds \cup {Null}
    /\ \A m \in MaterialIds : materials[m].folder \in FolderIds \cup {Null}
    /\ delInfo.done =>
          /\ \A g \in FolderIds : folders[g].parentFolder \notin delInfo.subtree \ FolderIds
          /\ \A m \in MaterialIds : materials[m].folder \notin delInfo.subtree \ FolderIds

-----------------------------------------------------------------------------
(* Folder delete in a hierarchy of several teachers *)

\* SpecForeign: two teachers create folders, upload into their own folders and
\* delete their own folders, one request after the other
ForeignCreate ==
    \E u \in OwnerUsers, parent \in 0..MaxFolders : CreateFolder(u, "a", parent, "9", "Both", FALSE)

ForeignUpload == \E u \in OwnerUsers, id \in 1..MaxFolders : UploadToFolder(u, id, "pdf", "u", TRUE)

ForeignDelete == \E u \in OwnerUsers, id \in 1..MaxFolders : DeleteFolderRoute(u, id)

NextForeign ==
    \/ ForeignCreate
    \/ ForeignUpload
    \/ ForeignDelete
    \/ DeleteFolderSteps

SpecForeign == Init /\ [][NextForeign]_vars

\* C27: a folder delete issued by the owner of a folder deletes only folder and
\* material records of that owner: every record removed by a step of the
\* running deleteFolder is owned by the owner of the folder the route was
\* called on.
C27_DeletesOwnRecordsOnly ==
    [][~Idle =>
          LET U == folders[delStack[1].folder].owner
          IN /\ \A f \in FolderIds \ DOMAIN folders' : folders[f].owner = U
             /\ \A m \in MaterialIds \ DOMAIN materials' : materials[m].owner = U]_vars

-----------------------------------------------------------------------------
(* List, get and download of a student *)

\* C28: a student is authorized to get and to download a material exactly when
\* the material appears in the student's material list requested without
\* extra filters.
C28_GetIffListed ==
    \A u \in Students, m \in MaterialIds :
        /\ GetMaterialStatus(u, m) = "ok" <=> m \in ListMaterials(u)
        /\ DownloadStatus(u, m) \notin {"denied", "error"} <=> m \in ListMaterials(u)

-----------------------------------------------------------------------------
(* Who is recorded as an attendee *)

\* SpecAttend: join requests of students and of a teacher on a teacher's sessions
AttendCreate ==
    \E gp \in {<<"9", "Both">>, <<"11", "EST">>} : CreateSession("t1", gp[1], gp[2], TRUE)

AttendJoin == \E u \in {"s1", "s2", "t2"}, s \in 1..MaxSessions : JoinSession(u, s)

AttendDelete == \E s \in 1..MaxSessions : DeleteSession("t1", s, TRUE)

NextAttend ==
    \/ AttendCreate
    \/ AttendJoin
    \/ AttendDelete

SpecAttend == Init /\ [][NextAttend]_vars

\* C29: every attendee entry of a session refers to a student who satisfies the
\* session's eligibility rule, and a join of an ineligible student is rejected
\* and leaves the attendee list unchanged.
C29_AttendeesEligibleStudents ==
    [][/\ \A s \in DOMAIN sessions' : \A i \in 1..Len(sessions'[s].attendees) :
             LET a == sessions'[s].attendees[i].student
             IN Role(a) = "student" /\ CanJoin(sessions'[s], a)
       /\ \A u \in Students, s \in SessionIds :
             (~CanJoin(sessions[s], u) /\ JoinSession(u, s)) =>
                 (JoinSessionStatus(u, s) = "denied" /\ UNCHANGED sessions)]_vars

-----------------------------------------------------------------------------
(* Range of the attendance rate *)

\* C30: the attendance rate reported for a student is an integer between 0 and
\* 100 inclusive.
C30_RateWithinRange ==
    \A st \in Students : AttendanceRate(st, clock) \in 0..100

====
